---- MODULE Spec2Model ----
(***************************************************************************)
(* Overseerr -> Telegram approval bot (src/bot.py).                        *)
(*                                                                         *)
(* Three execution contexts are modelled:                                  *)
(*   - the chat event loop (python-telegram-bot Application started by     *)
(*     start_telegram_bot): it handles one update at a time, so a command  *)
(*     handler runs only while no button_handler is suspended;             *)
(*   - the HTTP listener thread running webhook(), which blocks inside     *)
(*     asyncio.run(send_request_message(data));                            *)
(*   - the wall clock read by login_command (datetime.now()).              *)
(* The request service (Overseerr) and the chat transport (Telegram) are   *)
(* the environment: their answers are chosen nondeterministically.         *)
(***************************************************************************)
EXTENDS Integers, Sequences, FiniteSets, TLC

\* ------------------------------------------------------------- bounds
\* the clock runs from 0 to MaxTime (minutes)
MaxTime == 6
\* webhook POSTs received in one run
MaxWebhooks == 3
\* request messages in the chat while buttons are pressed
MaxMessages == 1
\* button clicks made in one run
MaxClicks == 2
\* entries in the field_order list and in the enabled_fields list
MaxListed == 2
\* characters of an overview
MaxOverview == 5
\* the largest synopsis.max_length that is configured
MaxMaxLength == 5
\* the operator writes or removes the configuration file while its
\* modification stamp is at most MaxEdits
MaxEdits == 2

\* chat identities (Telegram user ids)
Ids == {1, 2}
\* request ids carried by webhook payloads: the request service numbers its
\* requests, the n-th webhook of a run carries FirstReqId + n
FirstReqId == 41
ReqIds == FirstReqId .. (FirstReqId + MaxWebhooks)

\* ---------------------------------------------------- program constants
\* timedelta(minutes=5): the login window, in minutes
Window == 5
\* user_attempts['count'] >= 5: the lockout threshold
MaxAttempts == 5

\* the password whose hash is ADMIN_PASSWORD_HASH, and what /login may carry
\* ("" is a /login without arguments: " ".join([]) )
AdminPassword == "s3cret"
Passwords == {"", "wrong", AdminPassword}
ChatTypes == {"private", "group"}

\* ------------------------------------------------------------ replies
RateLimitReply == "Too many failed login attempts. Please try again in 5 minutes."
PrivateOnlyReply == "For security, please use the /login command in a private message to the bot."
IncorrectReply == "Incorrect password."
NowAdminReply == "You are now an admin! You can now use admin commands in the group channel."
LoggedOutAdminReply == "You have been logged out as admin."
LoggedOutUserReply == "You have been logged out as user."
NotLoggedInReply == "You are not logged in."
OnlyAdminsReply == "Only admins can use this command."
AlreadyUserReply == "is already an authorized user."
UserAddedReply == "User added."
UserRemovedReply == "User removed."
UserNotFoundReply == "User not found."
UsersListReply == "Users:"
AdminsListReply == "Admins:"
ReloadDeniedReply == "Only admins can reload the configuration."
ReloadedReply == "Message configuration reloaded successfully!"
StatusDeniedReply == "Only admins can view configuration status."
StatusReply == "Configuration Status:"
DenialAnswer == "You are not authorized to approve or deny requests."
AckAnswer == "answer()"

VARIABLES
    admins,          \* in-memory admins set
    users,           \* in-memory users set
    adminsFile,      \* contents of ADMINS_FILE
    usersFile,       \* contents of USERS_FILE
    login_attempts,  \* context.bot_data['login_attempts']: id -> [count, time]
    now,             \* datetime.now(), in minutes
    last,            \* the update the chat loop handled last and what it answered
    messages,        \* request messages delivered to the chat, by message id
    announcements,   \* outcome announcements sent after a successful action
    clicks,          \* callback queries made by users, not yet handled
    nclicks,         \* clicks made so far
    bh,              \* the running button_handler coroutine
    wh,              \* the webhook request being served by the HTTP listener
    nwebhooks,       \* webhook POSTs received so far
    posts,           \* POSTs issued to the request service's action endpoint
    authPresses,     \* button presses that passed the authorization check
    config,          \* config_manager.config: the loaded message configuration
    config_file,     \* the file named by CONFIG_FILE
    last_modified,   \* config_manager.last_modified
    reload_thread    \* the thread started by start_auto_reload

authVars == <<admins, users, adminsFile, usersFile, login_attempts>>
chatVars == <<messages, announcements, clicks, nclicks, bh, posts, authPresses>>
hookVars == <<wh, nwebhooks>>
cfgVars == <<config, config_file, last_modified, reload_thread>>
vars == <<admins, users, adminsFile, usersFile, login_attempts, now, last,
          messages, announcements, clicks, nclicks, bh, wh, nwebhooks, posts,
          authPresses, config, config_file, last_modified, reload_thread>>

\* ------------------------------------------------------------ helpers
\* load_ids: the set read back from a file
load_ids(file) == file

\* save_ids: the whole set is written
save_ids(ids) == ids

\* werkzeug check_password_hash against ADMIN_PASSWORD_HASH
check_password_hash(pw) == pw = AdminPassword

NoAttempts == [count |-> 0, time |-> now]

\* lines 606-609: the identity's record, or a fresh one; reset once the
\* window has passed since the record's time
user_attempts(u) ==
    LET ua == IF u \in DOMAIN login_attempts THEN login_attempts[u] ELSE NoAttempts
    IN  IF now - ua.time > Window THEN NoAttempts ELSE ua

\* an update handled by the chat loop: the command or press, who sent it, its
\* arguments and the answer
Event(op, u, args, reply) == [op |-> op, user |-> u, args |-> args, reply |-> reply]

IdleHandler == [pc |-> "idle"]
IdleWebhook == [pc |-> "idle"]
LoopFree == bh.pc = "idle"

\* ------------------------------------------------- message configuration
\* the fields a message can be made of (get_default_config, lines 64-92)
Fields == {"picture", "title", "requester", "synopsis", "rating", "links", "cast", "crew"}

\* get_default_config, lines 60-100; of field_settings the model keeps the
\* enabled flags (as the set of fields whose flag is on), synopsis.max_length,
\* rating.show_tmdb, rating.show_imdb, settings.debug_mode and
\* settings.auto_reload_config; every other setting has its default value
DefaultConfig ==
    [enabled_fields |-> <<"picture", "title", "requester">>,
     field_order |-> <<"picture", "title", "requester">>,
     enabled |-> {"picture", "title", "requester"},
     max_length |-> 300, show_tmdb |-> TRUE, show_imdb |-> FALSE,
     debug_mode |-> FALSE, auto_reload |-> TRUE]

\* what the getters make of a file that holds no keys (`yaml.safe_load(f) or
\* {}`, line 107): the defaults of lines 55, 157, 161, 162, 176, 282, 296, 301
EmptyConfig ==
    [enabled_fields |-> <<>>, field_order |-> <<>>, enabled |-> {},
     max_length |-> 300, show_tmdb |-> TRUE, show_imdb |-> FALSE,
     debug_mode |-> FALSE, auto_reload |-> TRUE]

\* The configuration file: whether it is there and parses (status "ok"), is
\* there but is not YAML ("malformed"), or is not there ("missing"); what it
\* parses to; and its modification time (os.path.getmtime), a stamp that
\* every write or removal of the file advances.
\* a configuration file that exists and parses, as found at startup
ConfigFile(content) == [status |-> "ok", content |-> content, mtime |-> 1]

\* a file that yaml.safe_load rejects, as found at startup
MalformedFile == [status |-> "malformed", content |-> EmptyConfig, mtime |-> 1]

\* no file at startup
MissingFile == [status |-> "missing", content |-> EmptyConfig, mtime |-> 0]

\* load_config, lines 102-116: the parsed file, or the defaults when the
\* file is missing or does not parse
load_config(file) == IF file.status = "ok" THEN file.content ELSE DefaultConfig

\* create_default_config that leaves a missing file missing
create_default_config_nothing(file) == file

\* load_config, lines 109-112, and create_default_config, lines 118-125: the
\* file after load_config has run; a missing file is written with the
\* defaults, any other file is left as it is
create_default_config(file) ==
    IF file.status = "missing"
    THEN [status |-> "ok", content |-> DefaultConfig, mtime |-> file.mtime + 1]
    ELSE file

\* load_config, line 108: last_modified after load_config has run; it is
\* assigned only after the file was opened and parsed
modified_after_load(file, modified) ==
    IF file.status = "ok" THEN file.mtime ELSE modified

\* start_auto_reload, lines 140-149, under `if self.auto_reload` (line 57)
thread_of(c) == IF c.auto_reload THEN "running" ELSE "none"

\* MessageConfigManager.__init__, lines 49-58, with the file it finds
Started(file) ==
    /\ config = load_config(file)
    /\ config_file = create_default_config(file)
    /\ last_modified = modified_after_load(file, 0)
    /\ reload_thread = thread_of(config)

\* is_field_enabled, lines 155-157
is_field_enabled(field) == field \in config.enabled

\* config_manager.is_field_enabled('picture'), lines 456 and 466
picture_enabled == is_field_enabled("picture")

\* is_debug_mode, lines 174-176
is_debug_mode == config.debug_mode

\* `x in list`
InList(x, list) == \E i \in 1..Len(list) : list[i] = x

\* get_enabled_fields, lines 168-170: the enabled fields that the order does
\* not name are appended, each once
RECURSIVE append_unordered(_, _, _)
append_unordered(ordered_enabled, enabled_fields, enabled) ==
    IF enabled_fields = <<>> THEN ordered_enabled
    ELSE LET field == Head(enabled_fields) IN
         append_unordered(
             IF ~InList(field, ordered_enabled) /\ field \in enabled
                 THEN Append(ordered_enabled, field) ELSE ordered_enabled,
             Tail(enabled_fields), enabled)

\* get_enabled_fields, lines 159-172, for a configuration c
enabled_fields_of(c) ==
    LET keep(field) == InList(field, c.enabled_fields) /\ field \in c.enabled
    IN  append_unordered(SelectSeq(c.field_order, keep), c.enabled_fields, c.enabled)

get_enabled_fields == enabled_fields_of(config)

\* the default configuration without the picture
NoPictureConfig ==
    [DefaultConfig EXCEPT !.enabled_fields = <<"title", "requester">>,
                          !.field_order = <<"title", "requester">>,
                          !.enabled = {"title", "requester"}]

\* a configuration in which the picture is the only field
PictureOnlyConfig ==
    [DefaultConfig EXCEPT !.enabled_fields = <<"picture">>,
                          !.field_order = <<"picture">>,
                          !.enabled = {"picture"}]

\* the files the bot can find when it starts
StartupConfigFiles ==
    {ConfigFile(c) : c \in {DefaultConfig, NoPictureConfig, PictureOnlyConfig, EmptyConfig}}

\* ------------------------------------------------ chat command handlers
\* Each handler runs to completion on the chat loop; `last` records the
\* update and the reply_text it produced.

\* login_command whose rate-limited attempts restart the lockout
login_command_extends_lockout(u, pw, chat) ==
    /\ LoopFree
    /\ LET ua == user_attempts(u) IN
       IF ua.count >= MaxAttempts THEN
            /\ login_attempts' = [login_attempts EXCEPT ![u].time = now]
            /\ last' = Event("login", u, <<pw, chat>>, RateLimitReply)
            /\ UNCHANGED <<admins, users, adminsFile, usersFile>>
       ELSE IF chat # "private" THEN
            /\ last' = Event("login", u, <<pw, chat>>, PrivateOnlyReply)
            /\ UNCHANGED authVars
       ELSE IF pw = "" \/ ~check_password_hash(pw) THEN
            /\ login_attempts' =
                   [x \in DOMAIN login_attempts \cup {u} |->
                       IF x = u THEN [count |-> ua.count + 1, time |-> now]
                                ELSE login_attempts[x]]
            /\ last' = Event("login", u, <<pw, chat>>, IncorrectReply)
            /\ UNCHANGED <<admins, users, adminsFile, usersFile>>
       ELSE
            /\ login_attempts' = [x \in DOMAIN login_attempts \ {u} |-> login_attempts[x]]
            /\ admins' = admins \cup {u}
            /\ adminsFile' = save_ids(admins')
            /\ last' = Event("login", u, <<pw, chat>>, NowAdminReply)
            /\ UNCHANGED <<users, usersFile>>
    /\ UNCHANGED <<now, chatVars, hookVars, cfgVars>>

\* login_command that keeps the time of the first counted attempt
login_command_keeps_time(u, pw, chat) ==
    /\ LoopFree
    /\ LET ua == user_attempts(u) IN
       IF ua.count >= MaxAttempts THEN
            /\ last' = Event("login", u, <<pw, chat>>, RateLimitReply)
            /\ UNCHANGED authVars
       ELSE IF chat # "private" THEN
            /\ last' = Event("login", u, <<pw, chat>>, PrivateOnlyReply)
            /\ UNCHANGED authVars
       ELSE IF pw = "" \/ ~check_password_hash(pw) THEN
            /\ login_attempts' =
                   [x \in DOMAIN login_attempts \cup {u} |->
                       IF x = u THEN [count |-> ua.count + 1, time |-> ua.time]
                                ELSE login_attempts[x]]
            /\ last' = Event("login", u, <<pw, chat>>, IncorrectReply)
            /\ UNCHANGED <<admins, users, adminsFile, usersFile>>
       ELSE
            /\ login_attempts' = [x \in DOMAIN login_attempts \ {u} |-> login_attempts[x]]
            /\ admins' = admins \cup {u}
            /\ adminsFile' = save_ids(admins')
            /\ last' = Event("login", u, <<pw, chat>>, NowAdminReply)
            /\ UNCHANGED <<users, usersFile>>
    /\ UNCHANGED <<now, chatVars, hookVars, cfgVars>>

\* logout_command that leaves the files as they are
logout_command_no_save(u) ==
    /\ LoopFree
    /\ IF u \in admins THEN
            /\ admins' = admins \ {u}
            /\ last' = Event("logout", u, <<>>, LoggedOutAdminReply)
            /\ UNCHANGED users
       ELSE IF u \in users THEN
            /\ users' = users \ {u}
            /\ last' = Event("logout", u, <<>>, LoggedOutUserReply)
            /\ UNCHANGED admins
       ELSE
            /\ last' = Event("logout", u, <<>>, NotLoggedInReply)
            /\ UNCHANGED <<admins, users>>
    /\ UNCHANGED <<adminsFile, usersFile, login_attempts, now, chatVars, hookVars, cfgVars>>

\* login_command that compares the secret before it looks at the count
login_command_check_late(u, pw, chat) ==
    /\ LoopFree
    /\ LET ua == user_attempts(u) IN
       IF chat = "private" /\ pw # "" /\ check_password_hash(pw) THEN
            /\ login_attempts' = [x \in DOMAIN login_attempts \ {u} |-> login_attempts[x]]
            /\ admins' = admins \cup {u}
            /\ adminsFile' = save_ids(admins')
            /\ last' = Event("login", u, <<pw, chat>>, NowAdminReply)
            /\ UNCHANGED <<users, usersFile>>
       ELSE IF ua.count >= MaxAttempts THEN
            /\ last' = Event("login", u, <<pw, chat>>, RateLimitReply)
            /\ UNCHANGED authVars
       ELSE IF chat # "private" THEN
            /\ last' = Event("login", u, <<pw, chat>>, PrivateOnlyReply)
            /\ UNCHANGED authVars
       ELSE
            /\ login_attempts' =
                   [x \in DOMAIN login_attempts \cup {u} |->
                       IF x = u THEN [count |-> ua.count + 1, time |-> now]
                                ELSE login_attempts[x]]
            /\ last' = Event("login", u, <<pw, chat>>, IncorrectReply)
            /\ UNCHANGED <<admins, users, adminsFile, usersFile>>
    /\ UNCHANGED <<now, chatVars, hookVars, cfgVars>>

\* login_command, lines 599-634
login_command(u, pw, chat) ==
    /\ LoopFree
    /\ LET ua == user_attempts(u) IN
       IF ua.count >= MaxAttempts THEN
            /\ last' = Event("login", u, <<pw, chat>>, RateLimitReply)
            /\ UNCHANGED authVars
       ELSE IF chat # "private" THEN
            /\ last' = Event("login", u, <<pw, chat>>, PrivateOnlyReply)
            /\ UNCHANGED authVars
       ELSE IF pw = "" \/ ~check_password_hash(pw) THEN
            /\ login_attempts' =
                   [x \in DOMAIN login_attempts \cup {u} |->
                       IF x = u THEN [count |-> ua.count + 1, time |-> now]
                                ELSE login_attempts[x]]
            /\ last' = Event("login", u, <<pw, chat>>, IncorrectReply)
            /\ UNCHANGED <<admins, users, adminsFile, usersFile>>
       ELSE
            /\ login_attempts' = [x \in DOMAIN login_attempts \ {u} |-> login_attempts[x]]
            /\ admins' = admins \cup {u}
            /\ adminsFile' = save_ids(admins')
            /\ last' = Event("login", u, <<pw, chat>>, NowAdminReply)
            /\ UNCHANGED <<users, usersFile>>
    /\ UNCHANGED <<now, chatVars, hookVars, cfgVars>>

\* logout_command, lines 636-647
logout_command(u) ==
    /\ LoopFree
    /\ IF u \in admins THEN
            /\ admins' = admins \ {u}
            /\ adminsFile' = save_ids(admins')
            /\ last' = Event("logout", u, <<>>, LoggedOutAdminReply)
            /\ UNCHANGED <<users, usersFile>>
       ELSE IF u \in users THEN
            /\ users' = users \ {u}
            /\ usersFile' = save_ids(users')
            /\ last' = Event("logout", u, <<>>, LoggedOutUserReply)
            /\ UNCHANGED <<admins, adminsFile>>
       ELSE
            /\ last' = Event("logout", u, <<>>, NotLoggedInReply)
            /\ UNCHANGED <<admins, adminsFile, users, usersFile>>
    /\ UNCHANGED <<login_attempts, now, chatVars, hookVars, cfgVars>>

\* adduser_reply_command (/add as a reply to a message of `target`),
\* lines 649-665; the usage reply of a /add that replies to nothing
\* changes no state and is left out
adduser_reply_command(u, target) ==
    /\ LoopFree
    /\ IF u \notin admins THEN
            /\ last' = Event("add", u, <<>>, OnlyAdminsReply)
            /\ UNCHANGED <<users, usersFile>>
       ELSE IF target \in users THEN
            /\ last' = Event("add", u, <<>>, AlreadyUserReply)
            /\ UNCHANGED <<users, usersFile>>
       ELSE
            /\ users' = users \cup {target}
            /\ usersFile' = save_ids(users')
            /\ last' = Event("add", u, <<>>, UserAddedReply)
    /\ UNCHANGED <<admins, adminsFile, login_attempts, now, chatVars, hookVars,
                   cfgVars>>

\* adduser_command that adds to the wrong set
adduser_command_adds_admin(u, target) ==
    /\ LoopFree
    /\ IF u \notin admins THEN
            /\ last' = Event("adduser", u, <<>>, OnlyAdminsReply)
            /\ UNCHANGED <<admins, adminsFile>>
       ELSE
            /\ admins' = admins \cup {target}
            /\ adminsFile' = save_ids(admins')
            /\ last' = Event("adduser", u, <<>>, UserAddedReply)
    /\ UNCHANGED <<users, usersFile, login_attempts, now, chatVars, hookVars,
                   cfgVars>>

\* adduser_command (/adduser <user_id>), lines 667-682
adduser_command(u, target) ==
    /\ LoopFree
    /\ IF u \notin admins THEN
            /\ last' = Event("adduser", u, <<>>, OnlyAdminsReply)
            /\ UNCHANGED <<users, usersFile>>
       ELSE
            /\ users' = users \cup {target}
            /\ usersFile' = save_ids(users')
            /\ last' = Event("adduser", u, <<>>, UserAddedReply)
    /\ UNCHANGED <<admins, adminsFile, login_attempts, now, chatVars, hookVars,
                   cfgVars>>

\* removeuser_command (/removeuser <user_id>), lines 684-702
removeuser_command(u, target) ==
    /\ LoopFree
    /\ IF u \notin admins THEN
            /\ last' = Event("removeuser", u, <<>>, OnlyAdminsReply)
            /\ UNCHANGED <<users, usersFile>>
       ELSE IF target \in users THEN
            /\ users' = users \ {target}
            /\ usersFile' = save_ids(users')
            /\ last' = Event("removeuser", u, <<>>, UserRemovedReply)
       ELSE
            /\ last' = Event("removeuser", u, <<>>, UserNotFoundReply)
            /\ UNCHANGED <<users, usersFile>>
    /\ UNCHANGED <<admins, adminsFile, login_attempts, now, chatVars, hookVars,
                   cfgVars>>

\* listusers_command, lines 704-709
listusers_command(u) ==
    /\ LoopFree
    /\ last' = Event("listusers", u, <<>>,
                     IF u \notin admins THEN OnlyAdminsReply ELSE UsersListReply)
    /\ UNCHANGED <<authVars, now, chatVars, hookVars, cfgVars>>

\* listadmins_command, lines 711-716
listadmins_command(u) ==
    /\ LoopFree
    /\ last' = Event("listadmins", u, <<>>,
                     IF u \notin admins THEN OnlyAdminsReply ELSE AdminsListReply)
    /\ UNCHANGED <<authVars, now, chatVars, hookVars, cfgVars>>

\* reload_config_command that lets the members of users in
reload_config_command_users_too(u) ==
    /\ LoopFree
    /\ IF u \notin admins /\ u \notin users THEN
            /\ last' = Event("reloadconfig", u, <<>>, ReloadDeniedReply)
            /\ UNCHANGED <<config, config_file, last_modified>>
       ELSE
            /\ config' = load_config(config_file)
            /\ config_file' = create_default_config(config_file)
            /\ last_modified' = modified_after_load(config_file, last_modified)
            /\ last' = Event("reloadconfig", u, <<>>, ReloadedReply)
    /\ UNCHANGED <<authVars, now, chatVars, hookVars, reload_thread>>

\* reload_config_command, lines 543-554; load_config catches every exception
\* (line 114), so the handler always reaches the reply of line 552
reload_config_command(u) ==
    /\ LoopFree
    /\ IF u \notin admins THEN
            /\ last' = Event("reloadconfig", u, <<>>, ReloadDeniedReply)
            /\ UNCHANGED <<config, config_file, last_modified>>
       ELSE
            /\ config' = load_config(config_file)
            /\ config_file' = create_default_config(config_file)
            /\ last_modified' = modified_after_load(config_file, last_modified)
            /\ last' = Event("reloadconfig", u, <<>>, ReloadedReply)
    /\ UNCHANGED <<authVars, now, chatVars, hookVars, reload_thread>>

\* config_status_command, lines 556-576; for this command the event's args
\* hold what the status text reports: the enabled fields and the debug mode
config_status_command(u) ==
    /\ LoopFree
    /\ last' = IF u \notin admins
                 THEN Event("configstatus", u, <<>>, StatusDeniedReply)
                 ELSE Event("configstatus", u, <<get_enabled_fields, is_debug_mode>>,
                            StatusReply)
    /\ UNCHANGED <<authVars, now, chatVars, hookVars, cfgVars>>

\* the configurations an operator writes to the file while the bot runs
ConfigEdits == {ConfigFile(DefaultConfig), ConfigFile(NoPictureConfig)}

\* the operator writes the configuration file: another text, a later
\* modification time
edit_config_file(file) ==
    /\ config_file.mtime <= MaxEdits
    /\ <<config_file.status, config_file.content>> # <<file.status, file.content>>
    /\ config_file' = [file EXCEPT !.mtime = config_file.mtime + 1]
    /\ UNCHANGED <<authVars, now, last, chatVars, hookVars, config, last_modified,
                   reload_thread>>

\* the operator removes the configuration file
delete_config_file ==
    /\ config_file.mtime <= MaxEdits
    /\ config_file.status # "missing"
    /\ config_file' = [MissingFile EXCEPT !.mtime = config_file.mtime + 1]
    /\ UNCHANGED <<authVars, now, last, chatVars, hookVars, config, last_modified,
                   reload_thread>>

\* check_for_updates whose reload failure ends the reload thread
check_for_updates_fatal ==
    /\ reload_thread = "running"
    /\ IF config_file.status # "missing" /\ config_file.mtime > last_modified THEN
            /\ config' = load_config(config_file)
            /\ config_file' = create_default_config(config_file)
            /\ last_modified' = modified_after_load(config_file, last_modified)
            /\ reload_thread' = IF config_file.status = "ok" THEN "running" ELSE "stopped"
       ELSE UNCHANGED cfgVars
    /\ UNCHANGED <<authVars, now, last, chatVars, hookVars>>

\* one turn of reload_worker, lines 142-145, after its sleep:
\* check_for_updates, lines 127-138; the file is loaded when it is there and
\* its modification time is later than last_modified; every exception is
\* caught (lines 114, 136), so the loop goes on
check_for_updates ==
    /\ reload_thread = "running"
    /\ IF config_file.status # "missing" /\ config_file.mtime > last_modified THEN
            /\ config' = load_config(config_file)
            /\ config_file' = create_default_config(config_file)
            /\ last_modified' = modified_after_load(config_file, last_modified)
       ELSE UNCHANGED <<config, config_file, last_modified>>
    /\ UNCHANGED <<authVars, now, last, chatVars, hookVars, reload_thread>>

\* the wall clock advances by one minute
Tick ==
    /\ now < MaxTime
    /\ now' = now + 1
    /\ UNCHANGED <<authVars, last, chatVars, hookVars, cfgVars>>

\* ------------------------------------------------------ webhook pipeline
None == "None"
NotificationTypes == {"TEST_NOTIFICATION", "MEDIA_PENDING", "MEDIA_APPROVED"}

\* the fields send_request_message reads from the webhook body, lines 401-406
Payloads ==
    [media_type : {"movie", None}, tmdbId : {"550", None},
     image : {"https://poster", None}, requestedBy_username : {"alice"},
     request_id : ReqIds]

\* what the request service's detail endpoint can answer
FetchOutcomes == {"ok", "empty", "transport_error", "bad_status", "malformed"}
\* what the chat transport can answer to send_photo / send_message
SendOutcomes == {"ok", "transport_error"}
\* what the request service's action endpoint can answer
ActionOutcomes == {"ok", "bad_status", "transport_error"}

\* line 402: media.get("media_type", "unknown")
media_type_of(data) == IF data.media_type = None THEN "unknown" ELSE data.media_type

\* `not x` for an argument of fetch_media_details: None or the empty string
falsy(x) == x \in {None, ""}

\* fetch_media_details, line 199: no network call without a kind and an id
fetch_short_circuits(media_type, tmdb_id) == falsy(tmdb_id) \/ falsy(media_type)

\* fetch_media_details that returns the error as a dict
fetch_media_details_error_dict(media_type, tmdb_id, outcome) ==
    IF fetch_short_circuits(media_type, tmdb_id) THEN None
    ELSE IF outcome = "empty" THEN "{}"
    ELSE "details"

\* fetch_media_details, lines 198-210: the details, or None
fetch_media_details(media_type, tmdb_id, outcome) ==
    IF fetch_short_circuits(media_type, tmdb_id) THEN None
    ELSE IF outcome = "ok" THEN "details"
    ELSE IF outcome = "empty" THEN "{}"
    ELSE None

\* line 409: `not details`
no_details(details) == details = None \/ details = "{}"

\* error lines logged by the enrichment step: line 209 when the call raised,
\* line 410 when there are no details
fetch_errors(media_type, tmdb_id, outcome) ==
    (IF ~fetch_short_circuits(media_type, tmdb_id)
        /\ outcome \in {"transport_error", "bad_status", "malformed"} THEN 1 ELSE 0) + 1

\* ----------------------------------------------------------- rendering
\* The details are response.json() of the detail endpoint, as a record: a key
\* the service left out is not in its DOMAIN. Texts whose length matters are
\* sequences of characters; a number is a count of hundredths, with the kind
\* json gives it (7 is an int, 7.0 a float).

\* safe_get(data, key, fallback=...), lines 225-235, for string values
safe_get(data, key, fallback) ==
    IF key \in DOMAIN data THEN data[key]
    ELSE IF is_debug_mode THEN fallback ELSE None

\* `x and x != "N/A"` for a value read with safe_get: the key is there
has(data, key) == key \in DOMAIN data

\* one rendered field: its name, its label and its content; `ratings` holds the
\* rendered numbers of the rating field
Part(field, label, text, ratings) ==
    [field |-> field, label |-> label, text |-> text, ratings |-> ratings]

\* a formatter's None
Nothing == Part(None, "", <<>>, <<>>)

\* line 405: .get("requestedBy_username", "Unknown User")
requester_of(data) ==
    IF data.requestedBy_username = None THEN "Unknown User" ELSE data.requestedBy_username

\* lines 242 and 442: the title of a movie, the name of anything else
title_of(details, media_type) ==
    IF media_type = "movie" THEN safe_get(details, "title", "N/A")
    ELSE safe_get(details, "name", "Unknown Title")

\* format_title_field, lines 237-261 (show_year and show_emoji are on)
format_title_field(details, media_type) ==
    IF ~is_field_enabled("title") THEN Nothing
    ELSE LET title == title_of(details, media_type)
             date == IF media_type = "movie" THEN "releaseDate" ELSE "firstAirDate"
             year == IF has(details, date) THEN <<details[date]>> ELSE <<>>
             emoji == IF media_type = "movie" THEN "movie_emoji" ELSE "tv_emoji"
         IN  IF title \in {"", None, "N/A"} THEN Nothing
             ELSE Part("title", "", <<emoji, title>> \o year, <<>>)

\* format_requester_field, lines 263-269
format_requester_field(requester) ==
    IF ~is_field_enabled("requester") \/ requester = "" THEN Nothing
    ELSE Part("requester", "Requested by:", <<requester>>, <<>>)

\* the ellipsis marker of line 284
Ellipsis == <<".", ".", ".">>

\* synopsis.fallback, line 278: 'No synopsis available.'
NoSynopsis ==
    <<"N", "o", " ", "s", "y", "n", "o", "p", "s", "i", "s", " ",
      "a", "v", "a", "i", "l", "a", "b", "l", "e", ".">>

\* text[:k], as Python slices: a negative k counts from the end
slice_to(text, k) ==
    LET n == IF k >= 0 THEN (IF k < Len(text) THEN k ELSE Len(text))
                       ELSE (IF Len(text) + k > 0 THEN Len(text) + k ELSE 0)
    IN  SubSeq(text, 1, n)

\* lines 282-284
truncate(synopsis, max_length) ==
    IF Len(synopsis) > max_length
        THEN slice_to(synopsis, max_length - 3) \o Ellipsis
        ELSE synopsis

\* format_synopsis_field, lines 271-287
format_synopsis_field(details) ==
    IF ~is_field_enabled("synopsis") THEN Nothing
    ELSE LET overview == IF has(details, "overview") THEN details.overview ELSE <<>>
             synopsis == IF overview # <<>> THEN overview
                         ELSE IF is_debug_mode THEN NoSynopsis ELSE <<>>
         IN  IF synopsis = <<>> THEN Nothing
             ELSE Part("synopsis", "*Synopsis:*", truncate(synopsis, config.max_length), <<>>)

\* a number of the details: hundredths, and whether json read it as an int
Number(int, hundredths) == [int |-> int, h |-> hundredths]

\* a number as it is printed: digits before and after the point
Printed(whole, frac) == [whole |-> whole, frac |-> frac]

\* f"{x:.1f}", line 299: rounded to tenths (for numbers that are not halfway
\* between two tenths)
format_1f(x) ==
    LET tenths == (x.h + 5) \div 10 IN Printed(tenths \div 10, <<tenths % 10>>)

\* f"{x}", line 304: str() of an int or of a float
format_str(x) ==
    IF x.int THEN Printed(x.h \div 100, <<>>)
    ELSE IF x.h % 10 = 0 THEN Printed(x.h \div 100, <<(x.h \div 10) % 10>>)
    ELSE Printed(x.h \div 100, <<(x.h \div 10) % 10, x.h % 10>>)

\* one rendered rating: "<number>/10 (<tag>)"
Rating(printed, tag) == [number |-> printed, outOf |-> "/10", tag |-> tag]

\* lines 298 and 303: `score and score != "N/A" and score > 0`
positive(details, key) == has(details, key) /\ details[key].h > 0

\* format_rating_field, lines 289-310
format_rating_field(details) ==
    IF ~is_field_enabled("rating") THEN Nothing
    ELSE LET tmdb == IF config.show_tmdb /\ positive(details, "voteAverage")
                         THEN <<Rating(format_1f(details.voteAverage), "TMDb")>> ELSE <<>>
             imdb == IF config.show_imdb /\ positive(details, "imdbRating")
                         THEN <<Rating(format_str(details.imdbRating), "IMDb")>> ELSE <<>>
             ratings == tmdb \o imdb
         IN  IF ratings # <<>> THEN Part("rating", "*Rating:*", <<>>, ratings)
             ELSE IF is_debug_mode THEN Part("rating", "*Rating:*", <<"Not Rated">>, <<>>)
             ELSE Nothing

\* format_links_field, lines 312-341 (show_imdb and show_tmdb are on,
\* show_tvdb is off)
format_links_field(details, media_type) ==
    IF ~is_field_enabled("links") \/ ~has(details, "externalIds") THEN Nothing
    ELSE LET external_ids == details.externalIds
             imdb == IF has(external_ids, "imdbId")
                         THEN <<"IMDb", external_ids.imdbId>> ELSE <<>>
             tmdb == IF has(external_ids, "tmdbId") THEN <<"TMDb", external_ids.tmdbId>>
                     ELSE IF ~is_debug_mode /\ has(details, "id") THEN <<"TMDb", details.id>>
                     ELSE <<>>
         IN  IF imdb \o tmdb = <<>> THEN Nothing
             ELSE Part("links", "*Links:*", imdb \o tmdb, <<>>)

\* cast.max_items and crew.max_items, lines 86 and 90
MaxCast == 5
MaxCrew == 3
Roles == {"Director", "Producer", "Writer"}

\* format_cast_field, lines 343-368
format_cast_field(details) ==
    IF ~is_field_enabled("cast") \/ ~has(details, "credits")
          \/ ~has(details.credits, "cast") THEN Nothing
    ELSE LET cast_names == slice_to(details.credits.cast, MaxCast)
         IN  IF cast_names = <<>> THEN Nothing
             ELSE Part("cast", "Cast:", cast_names, <<>>)

\* format_crew_field, lines 370-397
format_crew_field(details) ==
    IF ~is_field_enabled("crew") \/ ~has(details, "credits")
          \/ ~has(details.credits, "crew") THEN Nothing
    ELSE LET in_roles(person) == person.job \in Roles
             crew_names == slice_to(SelectSeq(details.credits.crew, in_roles), MaxCrew)
         IN  IF crew_names = <<>> THEN Nothing
             ELSE Part("crew", "Crew:", crew_names, <<>>)

\* lines 418-434: the formatter of a field; the picture has none
field_content(field, details, data) ==
    IF field = "title" THEN format_title_field(details, media_type_of(data))
    ELSE IF field = "requester" THEN format_requester_field(requester_of(data))
    ELSE IF field = "synopsis" THEN format_synopsis_field(details)
    ELSE IF field = "rating" THEN format_rating_field(details)
    ELSE IF field = "links" THEN format_links_field(details, media_type_of(data))
    ELSE IF field = "cast" THEN format_cast_field(details)
    ELSE IF field = "crew" THEN format_crew_field(details)
    ELSE Nothing

\* lines 414-437: the contents of the enabled fields, in order, without the
\* empty ones
message_parts(details, data) ==
    LET enabled_fields == get_enabled_fields
        content == [i \in 1..Len(enabled_fields) |->
                       field_content(enabled_fields[i], details, data)]
        something(part) == part # Nothing
    IN  SelectSeq(content, something)

\* lines 442-444: the fixed message used when there are no parts
fallback_message(details, data) ==
    LET media_type == media_type_of(data) IN
    <<Part("fallback",
           IF media_type = "movie" THEN "New Movie Request!" ELSE "New TV Show Request!",
           <<IF media_type = "movie" THEN "movie_emoji" ELSE "tv_emoji",
             title_of(details, media_type), requester_of(data)>>,
           <<>>)>>

\* lines 439-446
message_of(details, data) ==
    IF message_parts(details, data) = <<>> THEN fallback_message(details, data)
    ELSE message_parts(details, data)

\* lines 449-452: the two buttons and their callback data
keyboard_of(data) == <<<<"approve", data.request_id>>, <<"deny", data.request_id>>>>

\* delivery that looks at the poster only
delivery_variant_poster_only(data) ==
    IF data.image # None THEN "photo" ELSE "text"

\* lines 456-475: photo with caption, or text
delivery_variant(data) ==
    IF picture_enabled /\ data.image # None THEN "photo" ELSE "text"

\* lines 449-453 and 457-475: the message as it appears in the chat
RequestMessage(data, details) ==
    [variant |-> delivery_variant(data), rid |-> data.request_id,
     buttons |-> TRUE, deleted |-> FALSE, body |-> "request",
     prefix |-> IF delivery_variant(data) = "text" /\ picture_enabled
                   THEN "fallback_emoji" ELSE "",
     message |-> message_of(details, data),
     keyboard |-> keyboard_of(data)]

\* a response without keys
NoKeys == [k \in {} |-> ""]

\* the details of a movie as the detail endpoint answers them
MovieDetails ==
    [id |-> "550", title |-> "Fight Club", releaseDate |-> "1999",
     overview |-> <<"a", "b", "a", "b">>, voteAverage |-> Number(FALSE, 840),
     externalIds |-> [imdbId |-> "tt0137523"],
     credits |-> [cast |-> <<"Edward Norton", "Brad Pitt">>,
                  crew |-> <<[name |-> "David Fincher", job |-> "Director"],
                             [name |-> "Jeff Cronenweth", job |-> "Camera"]>>]]

\* details that carry an id and nothing to render
BareDetails == [id |-> "550"]

\* the secret the Authorization header must carry (WEBHOOK_SECRET, line 35)
WEBHOOK_SECRET == "hook-secret"
Bearer(secret) == "Bearer " \o secret

\* request.headers.get("Authorization"): no header, the right one, a wrong
\* secret, the secret without its scheme, the scheme in another case
Authorizations ==
    {None, Bearer(WEBHOOK_SECRET), Bearer("wrong"), WEBHOOK_SECRET,
     "bearer " \o WEBHOOK_SECRET}

\* line 480: the header equals f"Bearer {WEBHOOK_SECRET}"
bearer_ok(authorization) == authorization = Bearer(WEBHOOK_SECRET)

Response(status, body) == [status |-> status, body |-> body]
NoResponse == Response(0, "")

\* the HTTP listener's state for the request it serves
Served(authorization, ntype, data, pc) ==
    [pc |-> pc, authorization |-> authorization, auth |-> bearer_ok(authorization),
     ntype |-> ntype, data |-> data,
     fetched |-> "unset", details |-> "unset", json |-> NoKeys, fetchCalls |-> 0, sendAttempts |-> 0, sent |-> "none",
     errors |-> 0, response |-> NoResponse]

\* webhook that schedules send_request_message on the chat loop and answers
\* at once
webhook_fire_and_forget(authorization, ntype, data) ==
    /\ wh.pc \in {"idle", "done"}
    /\ nwebhooks < MaxWebhooks
    /\ nwebhooks' = nwebhooks + 1
    /\ IF ~bearer_ok(authorization) THEN
            wh' = [Served(authorization, ntype, data, "done") EXCEPT !.response = Response(401, "Unauthorized")]
       ELSE IF ntype = "TEST_NOTIFICATION" THEN
            wh' = [Served(authorization, ntype, data, "done") EXCEPT
                      !.response = Response(200, "Test notification received!")]
       ELSE IF ntype = "MEDIA_PENDING" THEN
            wh' = [Served(authorization, ntype, data, "fetch") EXCEPT !.response = Response(200, "OK")]
       ELSE
            wh' = [Served(authorization, ntype, data, "done") EXCEPT !.response = Response(200, "OK")]
    /\ UNCHANGED <<authVars, now, last, chatVars, cfgVars>>

\* webhook that dispatches every notification that is not a test
webhook_dispatch_all(authorization, ntype, data) ==
    /\ wh.pc \in {"idle", "done"}
    /\ nwebhooks < MaxWebhooks
    /\ nwebhooks' = nwebhooks + 1
    /\ IF ~bearer_ok(authorization) THEN
            wh' = [Served(authorization, ntype, data, "done") EXCEPT !.response = Response(401, "Unauthorized")]
       ELSE IF ntype = "TEST_NOTIFICATION" THEN
            wh' = [Served(authorization, ntype, data, "done") EXCEPT
                      !.response = Response(200, "Test notification received!")]
       ELSE
            wh' = Served(authorization, ntype, data, "fetch")
    /\ UNCHANGED <<authVars, now, last, chatVars, cfgVars>>

\* webhook that looks at the notification type before the header
webhook_test_before_auth(authorization, ntype, data) ==
    /\ wh.pc \in {"idle", "done"}
    /\ nwebhooks < MaxWebhooks
    /\ nwebhooks' = nwebhooks + 1
    /\ IF ntype = "TEST_NOTIFICATION" THEN
            wh' = [Served(authorization, ntype, data, "done") EXCEPT
                      !.response = Response(200, "Test notification received!")]
       ELSE IF ~bearer_ok(authorization) THEN
            wh' = [Served(authorization, ntype, data, "done") EXCEPT !.response = Response(401, "Unauthorized")]
       ELSE IF ntype = "MEDIA_PENDING" THEN
            wh' = Served(authorization, ntype, data, "fetch")
       ELSE
            wh' = [Served(authorization, ntype, data, "done") EXCEPT !.response = Response(200, "OK")]
    /\ UNCHANGED <<authVars, now, last, chatVars, cfgVars>>

\* webhook, lines 478-497, up to the start of asyncio.run(send_request_message(data))
webhook(authorization, ntype, data) ==
    /\ wh.pc \in {"idle", "done"}
    /\ nwebhooks < MaxWebhooks
    /\ nwebhooks' = nwebhooks + 1
    /\ IF ~bearer_ok(authorization) THEN
            wh' = [Served(authorization, ntype, data, "done") EXCEPT !.response = Response(401, "Unauthorized")]
       ELSE IF ntype = "TEST_NOTIFICATION" THEN
            wh' = [Served(authorization, ntype, data, "done") EXCEPT
                      !.response = Response(200, "Test notification received!")]
       ELSE IF ntype = "MEDIA_PENDING" THEN
            wh' = Served(authorization, ntype, data, "fetch")
       ELSE
            wh' = [Served(authorization, ntype, data, "done") EXCEPT !.response = Response(200, "OK")]
    /\ UNCHANGED <<authVars, now, last, chatVars, cfgVars>>

\* send_request_message, lines 408-411: the enrichment call returns; without
\* details the coroutine returns, asyncio.run returns and webhook answers
\* (lines 492, 497)
enrich(outcome, json) ==
    /\ wh.pc = "fetch"
    /\ LET mt == media_type_of(wh.data)
           id == wh.data.tmdbId
           details == fetch_media_details(mt, id, outcome)
           called == IF fetch_short_circuits(mt, id) THEN 0 ELSE 1
           answer == IF called = 1 THEN outcome ELSE "not_called"
       IN  IF no_details(details) THEN
                wh' = [wh EXCEPT !.pc = "done", !.fetched = answer, !.details = details,
                                 !.fetchCalls = @ + called,
                                 !.errors = @ + fetch_errors(mt, id, outcome),
                                 !.response = Response(200, "OK")]
           ELSE
                wh' = [wh EXCEPT !.pc = "send", !.fetched = answer, !.details = details,
                                 !.json = json, !.fetchCalls = @ + called]
    /\ UNCHANGED <<authVars, now, last, chatVars, nwebhooks, cfgVars>>

\* dispatch that sends nothing when no field has content
dispatch_drops_empty(outcome) ==
    /\ wh.pc = "send"
    /\ IF message_parts(wh.json, wh.data) = <<>> THEN
            /\ messages' = messages
            /\ wh' = [wh EXCEPT !.pc = "done", !.response = Response(200, "OK")]
       ELSE IF outcome = "ok" THEN
            /\ messages' = Append(messages, RequestMessage(wh.data, wh.json))
            /\ wh' = [wh EXCEPT !.pc = "done", !.sendAttempts = @ + 1,
                                !.sent = delivery_variant(wh.data),
                                !.response = Response(200, "OK")]
       ELSE
            /\ messages' = messages
            /\ wh' = [wh EXCEPT !.pc = "done", !.sendAttempts = @ + 1,
                                !.errors = @ + 1,
                                !.response = Response(500, "Error processing notification")]
    /\ UNCHANGED <<authVars, now, last, announcements, clicks, nclicks, bh, posts,
                   authPresses, nwebhooks, cfgVars>>

\* dispatch whose send failure is logged inside send_request_message and does
\* not leave asyncio.run
dispatch_swallow(outcome) ==
    /\ wh.pc = "send"
    /\ messages' = IF outcome = "ok" THEN Append(messages, RequestMessage(wh.data, wh.json))
                                     ELSE messages
    /\ wh' = [wh EXCEPT !.pc = "done", !.sendAttempts = @ + 1,
                        !.sent = IF outcome = "ok" THEN delivery_variant(wh.data) ELSE "none",
                        !.errors = @ + (IF outcome = "ok" THEN 0 ELSE 1),
                        !.response = Response(200, "OK")]
    /\ UNCHANGED <<authVars, now, last, announcements, clicks, nclicks, bh, posts,
                   authPresses, nwebhooks, cfgVars>>

\* send_request_message, lines 413-475, and webhook, lines 490-497: render,
\* send once; a send that raises leaves asyncio.run with the exception, which
\* webhook logs and answers with 500
dispatch(outcome) ==
    /\ wh.pc = "send"
    /\ IF outcome = "ok" THEN
            /\ messages' = Append(messages, RequestMessage(wh.data, wh.json))
            /\ wh' = [wh EXCEPT !.pc = "done", !.sendAttempts = @ + 1,
                                !.sent = delivery_variant(wh.data),
                                !.response = Response(200, "OK")]
       ELSE
            /\ messages' = messages
            /\ wh' = [wh EXCEPT !.pc = "done", !.sendAttempts = @ + 1,
                                !.errors = @ + 1,
                                !.response = Response(500, "Error processing notification")]
    /\ UNCHANGED <<authVars, now, last, announcements, clicks, nclicks, bh, posts,
                   authPresses, nwebhooks, cfgVars>>

\* ------------------------------------------------------- button presses
\* query.data: the callback data of the button that was pressed; the keyboard
\* row holds the Approve button first and the Deny button second (lines 449-452)
callback_data(keyboard, button) ==
    IF button = "approve" THEN keyboard[1] ELSE keyboard[2]

\* a chat member presses a button of a message that shows its buttons; the
\* callback query waits until the chat loop takes it
Click(u, m, button) ==
    /\ nclicks < MaxClicks
    /\ m \in DOMAIN messages
    /\ messages[m].buttons /\ ~messages[m].deleted
    /\ clicks' = Append(clicks, [user |-> u, msg |-> m, button |-> button,
                                 data |-> callback_data(messages[m].keyboard, button)])
    /\ nclicks' = nclicks + 1
    /\ UNCHANGED <<authVars, now, last, messages, announcements, bh, posts,
                   authPresses, hookVars, cfgVars>>

\* the action is the prefix of the callback data
action_of_prefix(data) == data[1]

\* line 512: "approve" if query.data.startswith("approve_") else "decline"
action_of(data) == IF data[1] = "approve" THEN "approve" ELSE "decline"
\* line 513: query.data.split("_")[1]
request_id_of(data) == data[2]

\* ---- the request context read back from the message, lines 515-529
\* A line of text is a sequence of tokens; the characters the parsing looks
\* at, "*" and ":", are tokens of their own.

\* the tokens of a field's label
label_tokens(label) ==
    IF label = "*Synopsis:*" THEN <<"*", "Synopsis", ":", "*">>
    ELSE IF label = "*Rating:*" THEN <<"*", "Rating", ":", "*">>
    ELSE IF label = "*Links:*" THEN <<"*", "Links", ":", "*">>
    ELSE IF label = "Requested by:" THEN <<"Requested by", ":">>
    ELSE IF label = "Cast:" THEN <<"Cast", ":">>
    ELSE IF label = "Crew:" THEN <<"Crew", ":">>
    ELSE <<>>

\* the content of a rendered field as tokens: the ratings by their source,
\* the crew by their names
words(part) ==
    IF part.field = "rating" THEN part.text \o [i \in 1..Len(part.ratings) |-> part.ratings[i].tag]
    ELSE IF part.field = "crew" THEN [i \in 1..Len(part.text) |-> part.text[i].name]
    ELSE part.text

\* the lines of one message part as send_request_message writes them: the
\* title is f"{emoji} *{title}*" (line 257), the other fields are their label
\* and their content, the fallback message is the three lines of line 444
lines_of(part) ==
    IF part.field = "title" THEN
        << <<Head(part.text), "*">> \o Tail(part.text) \o <<"*">> >>
    ELSE IF part.field = "fallback" THEN
        << <<part.text[1], "*", part.label, "*">>,
           <<"*", "Title", ":", "*", part.text[2]>>,
           <<"*", "Requested by", ":", "*", part.text[3]>> >>
    ELSE << label_tokens(part.label) \o words(part) >>

\* message.split('\\n'), lines 446 and 519, without the empty lines between
\* two parts
RECURSIVE lines(_)
lines(message) ==
    IF message = <<>> THEN <<>> ELSE lines_of(Head(message)) \o lines(Tail(message))

\* parse_mode="Markdown" (lines 461, 473): the chat shows and hands back the
\* text without the markup characters
strip_markup(line) == SelectSeq(line, LAMBDA tok : tok # "*")

\* query.message.caption, line 518: the caption of a photo message as the
\* chat hands it back; a text message has no caption
NoCaption == << <<"no caption">> >>
caption_of(msg) ==
    IF msg.variant = "photo"
    THEN [i \in 1..Len(lines(msg.message)) |-> strip_markup(lines(msg.message)[i])]
    ELSE NoCaption

\* `x in line` for one token, and for a word followed by a colon
contains(line, tok) == \E i \in 1..Len(line) : line[i] = tok
contains_label(line, word) ==
    \E i \in 1..(Len(line) - 1) : line[i] = word /\ line[i + 1] = ":"

\* line.split(':', 1)[1].strip(): what follows the first colon
after_colon(line) ==
    LET first == CHOOSE i \in 1..Len(line) :
                     line[i] = ":" /\ \A j \in 1..(i - 1) : line[j] # ":"
    IN  SubSeq(line, first + 1, Len(line))

\* lines 520-524: the title a line gives, or the title so far
title_from(line, title) ==
    IF contains_label(line, "Title") \/ contains(line, "*")
    THEN IF contains(line, ":") THEN after_colon(line) ELSE strip_markup(line)
    ELSE title

\* lines 525-529: the requester a line gives, or the requester so far; a
\* line without a colon raises IndexError, which is passed over
requester_from(line, requester) ==
    IF contains_label(line, "Requested by") \/ contains(line, "requester")
    THEN IF contains(line, ":") THEN after_colon(line) ELSE requester
    ELSE requester

\* lines 515-524: the loop over the lines of the caption, every matching
\* line replacing the title
RECURSIVE title_over(_, _)
title_over(caption, title) ==
    IF caption = <<>> THEN title
    ELSE title_over(Tail(caption), title_from(Head(caption), title))

RECURSIVE requester_over(_, _)
requester_over(caption, requester) ==
    IF caption = <<>> THEN requester
    ELSE requester_over(Tail(caption), requester_from(Head(caption), requester))

\* lines 515 and 518-524
parsed_title(caption) ==
    IF caption = NoCaption THEN <<"The request">>
    ELSE title_over(caption, <<"The request">>)

\* lines 516 and 518-529
parsed_requester(caption) ==
    IF caption = NoCaption THEN <<"Unknown">>
    ELSE requester_over(caption, <<"Unknown">>)

\* line 507
authorized(u) == u \in admins \/ u \in users

\* button_handler without the return of line 509: the denial is answered and
\* the handler goes on
button_handler_no_return ==
    /\ LoopFree
    /\ clicks # <<>>
    /\ LET q == Head(clicks) IN
       /\ clicks' = Tail(clicks)
       /\ last' = Event("press", q.user, <<>>,
                        IF authorized(q.user) THEN AckAnswer ELSE DenialAnswer)
       /\ authPresses' = authPresses + (IF authorized(q.user) THEN 1 ELSE 0)
       /\ bh' = [pc |-> "call", user |-> q.user, msg |-> q.msg, button |-> q.button,
                 action |-> action_of(q.data),
                 request_id |-> request_id_of(q.data),
                 title |-> parsed_title(caption_of(messages[q.msg])),
                 original_requester |-> parsed_requester(caption_of(messages[q.msg])),
                 success |-> FALSE]
    /\ UNCHANGED <<authVars, now, messages, announcements, nclicks, posts, hookVars,
                   cfgVars>>

\* button_handler, lines 504-529: authorization, answer, parsing
button_handler ==
    /\ LoopFree
    /\ clicks # <<>>
    /\ LET q == Head(clicks) IN
       /\ clicks' = Tail(clicks)
       /\ IF ~authorized(q.user) THEN
               /\ last' = Event("press", q.user, <<>>, DenialAnswer)
               /\ UNCHANGED <<bh, authPresses>>
          ELSE
               /\ last' = Event("press", q.user, <<>>, AckAnswer)
               /\ authPresses' = authPresses + 1
               /\ bh' = [pc |-> "call", user |-> q.user, msg |-> q.msg,
                         button |-> q.button,
                         action |-> action_of(q.data),
                         request_id |-> request_id_of(q.data),
                         title |-> parsed_title(caption_of(messages[q.msg])),
                         original_requester |-> parsed_requester(caption_of(messages[q.msg])),
                         success |-> FALSE]
    /\ UNCHANGED <<authVars, now, messages, announcements, nclicks, posts, hookVars,
                   cfgVars>>

\* approve_or_deny_request that skips the POST for a message already resolved
approve_or_deny_request_dedup(outcome) ==
    /\ bh.pc = "call"
    /\ LET pending == messages[bh.msg].buttons /\ ~messages[bh.msg].deleted IN
       /\ posts' = IF pending
                      THEN Append(posts, [request_id |-> bh.request_id,
                                          action |-> bh.action, msg |-> bh.msg])
                      ELSE posts
       /\ bh' = [bh EXCEPT !.pc = "resolve", !.success = (pending /\ outcome = "ok")]
    /\ UNCHANGED <<authVars, now, last, messages, announcements, clicks, nclicks,
                   authPresses, hookVars, cfgVars>>

\* approve_or_deny_request, lines 212-222: one POST, True or False
approve_or_deny_request(outcome) ==
    /\ bh.pc = "call"
    /\ posts' = Append(posts, [request_id |-> bh.request_id, action |-> bh.action,
                               msg |-> bh.msg])
    /\ bh' = [bh EXCEPT !.pc = "resolve", !.success = (outcome = "ok")]
    /\ UNCHANGED <<authVars, now, last, messages, announcements, clicks, nclicks,
                   authPresses, hookVars, cfgVars>>

\* query.message.delete(), line 537: the transport refuses a message that is gone
can_delete(msg) == ~msg.deleted

\* query.edit_message_caption(caption=text, reply_markup=None), line 541: the
\* transport edits the caption of a media message; it refuses a message that
\* is gone, a text message (it has no caption) and an edit that changes nothing
can_edit_caption(msg) ==
    /\ ~msg.deleted
    /\ msg.variant = "photo"
    /\ ~(msg.body = "failed" /\ ~msg.buttons)

\* button_handler, lines 533-541: the outcome is shown
button_resolve ==
    /\ bh.pc = "resolve"
    /\ LET msg == messages[bh.msg] IN
       IF bh.success THEN
            IF can_delete(msg) THEN
                 /\ messages' = [messages EXCEPT ![bh.msg].deleted = TRUE]
                 /\ announcements' = announcements + 1
            ELSE UNCHANGED <<messages, announcements>>
       ELSE
            /\ messages' = IF can_edit_caption(msg)
                             THEN [messages EXCEPT ![bh.msg].body = "failed",
                                                   ![bh.msg].buttons = FALSE]
                             ELSE messages
            /\ UNCHANGED announcements
    /\ bh' = IdleHandler
    /\ UNCHANGED <<authVars, now, last, clicks, nclicks, posts, authPresses, hookVars,
                   cfgVars>>

\* --------------------------------------------------------- specifications
\* after construction: the sets are what the files hold (lines 194-195),
\* nothing has been received yet
AtRest ==
    /\ login_attempts = [x \in {} |-> NoAttempts]
    /\ now = 0
    /\ last = Event("none", 0, <<>>, "")
    /\ messages = <<>>
    /\ announcements = 0
    /\ clicks = <<>>
    /\ nclicks = 0
    /\ bh = IdleHandler
    /\ wh = IdleWebhook
    /\ nwebhooks = 0
    /\ posts = <<>>
    /\ authPresses = 0

Init ==
    /\ adminsFile \in SUBSET Ids
    /\ usersFile \in SUBSET (Ids \ adminsFile)
    /\ admins = load_ids(adminsFile)
    /\ users = load_ids(usersFile)
    /\ AtRest
    /\ \E file \in StartupConfigFiles : Started(file)

\* the payloads the request service can send after n webhooks
Requests(n) == {d \in Payloads : d.request_id = FirstReqId + n}

\* webhook payloads that name a kind and an id
CompletePayloads == {d \in Payloads : d.media_type # None /\ d.tmdbId # None}

\* the approval round trip: notifications that are delivered, button presses,
\* and the commands that change who is authorized
Next ==
    \/ \E d \in CompletePayloads \cap Requests(nwebhooks) :
          Len(messages) < MaxMessages
          /\ webhook(Bearer(WEBHOOK_SECRET), "MEDIA_PENDING", d)
    \/ enrich("ok", MovieDetails)
    \/ dispatch("ok")
    \/ \E u \in Ids, m \in 1..MaxMessages, b \in {"approve", "deny"} : Click(u, m, b)
    \/ button_handler
    \/ \E o \in ActionOutcomes : approve_or_deny_request(o)
    \/ button_resolve
    \/ \E u \in Ids : logout_command(u)
    \/ \E u, t \in Ids : adduser_command(u, t)

\* one admin to start with (logout_command and adduser_command change the
\* sets), the default field configuration
InitApproval == Init /\ admins = {1} /\ users = {} /\ config = DefaultConfig

Spec == InitApproval /\ [][Next]_vars

\* the body of the detail endpoint's answer: details when the call succeeds
JsonOf(outcome) == IF outcome = "ok" THEN {MovieDetails, BareDetails} ELSE {NoKeys}

\* the HTTP listener: every webhook input, every answer of the request
\* service and of the chat transport; notifications are dispatched while the
\* chat holds fewer than MaxMessages request messages
NextHook ==
    \/ \E a \in Authorizations, t \in NotificationTypes, d \in Requests(nwebhooks) :
          /\ (bearer_ok(a) /\ t = "MEDIA_PENDING") => Len(messages) < MaxMessages
          /\ webhook(a, t, d)
    \/ \E o \in FetchOutcomes : \E j \in JsonOf(o) : enrich(o, j)
    \/ \E o \in SendOutcomes : dispatch(o)

SpecHook == Init /\ [][NextHook]_vars

\* every chat command, with every input, at one instant
NextAuth ==
    \/ \E u \in Ids, pw \in Passwords, c \in ChatTypes : login_command(u, pw, c)
    \/ \E u \in Ids : logout_command(u)
    \/ \E u, t \in Ids : adduser_reply_command(u, t)
    \/ \E u, t \in Ids : adduser_command(u, t)
    \/ \E u, t \in Ids : removeuser_command(u, t)
    \/ \E u \in Ids : listusers_command(u)
    \/ \E u \in Ids : listadmins_command(u)
    \/ \E u \in Ids : reload_config_command(u)
    \/ \E u \in Ids : config_status_command(u)
    \/ \E f \in ConfigEdits : edit_config_file(f)

\* the bot starts with the default configuration
InitChat == Init /\ config = DefaultConfig

SpecAuth == InitChat /\ [][NextAuth]_vars

\* logins and logouts as time passes
NextLogin ==
    \/ \E u \in Ids, pw \in Passwords, c \in ChatTypes : login_command(u, pw, c)
    \/ \E u \in Ids : logout_command(u)
    \/ Tick

SpecLogin == InitChat /\ [][NextLogin]_vars

\* webhook bodies whose kind or id is left out (None) or empty
EnrichPayloads ==
    [media_type : {"movie", None, ""}, tmdbId : {"550", None, ""},
     image : {"https://poster", None}, requestedBy_username : {"alice"},
     request_id : ReqIds]

\* pending notifications with any kind and id, every answer of the request
\* service and of the chat transport
NextEnrich ==
    \/ \E d \in EnrichPayloads :
          /\ d.request_id = FirstReqId + nwebhooks
          /\ Len(messages) < MaxMessages
          /\ webhook(Bearer(WEBHOOK_SECRET), "MEDIA_PENDING", d)
    \/ \E o \in FetchOutcomes : \E j \in JsonOf(o) : enrich(o, j)
    \/ \E o \in SendOutcomes : dispatch(o)

SpecEnrich == Init /\ [][NextEnrich]_vars

\* the default fields without the picture, and no reload thread
ManualReloadConfig == [NoPictureConfig EXCEPT !.auto_reload = FALSE]

\* what the bot can find when it starts: a file that parses, with or without
\* auto_reload_config, a file that does not parse, or no file
ReloadStartupFiles ==
    {ConfigFile(DefaultConfig), ConfigFile(NoPictureConfig), ConfigFile(ManualReloadConfig),
     MalformedFile, MissingFile}

\* what the operator writes to the file while the bot runs
ReloadEdits == ConfigEdits \cup {MalformedFile}

\* one admin (identity 1); any configuration file
InitReload ==
    /\ adminsFile = {1} /\ usersFile = {}
    /\ admins = load_ids(adminsFile)
    /\ users = load_ids(usersFile)
    /\ AtRest
    /\ \E file \in ReloadStartupFiles : Started(file)

\* the operator changes the file, the reload thread polls it, chat members
\* send the reload command
NextReload ==
    \/ \E f \in ReloadEdits : edit_config_file(f)
    \/ delete_config_file
    \/ check_for_updates
    \/ \E u \in Ids : reload_config_command(u)

SpecReload == InitReload /\ [][NextReload]_vars

\* reload_worker, lines 142-145: the loop sleeps check_interval and calls
\* check_for_updates again, for as long as the process runs
SpecReloadFair == SpecReload /\ WF_vars(check_for_updates)

\* lists of at most n elements of S
ListsUpTo(S, n) == UNION {[1..k -> S] : k \in 0..n}

\* the fields the field configurations below are made of
ListedFields == {"picture", "title", "synopsis"}

\* field configurations: any order list, any enabled list, any flags
FieldConfigs ==
    {[DefaultConfig EXCEPT !.field_order = fo, !.enabled_fields = ef, !.enabled = en] :
        fo \in ListsUpTo(ListedFields, MaxListed),
        ef \in ListsUpTo(ListedFields, MaxListed),
        en \in SUBSET ListedFields}

\* the bot starts with one admin and any field configuration
InitFields ==
    /\ adminsFile = {1} /\ usersFile = {}
    /\ admins = load_ids(adminsFile)
    /\ users = load_ids(usersFile)
    /\ AtRest
    /\ \E c \in FieldConfigs : Started(ConfigFile(c))

\* get_enabled_fields, as the status command reports it
NextFields == \E u \in Ids : config_status_command(u)

SpecFields == InitFields /\ [][NextFields]_vars

\* one complete webhook payload of a movie request
MoviePayload ==
    [media_type |-> "movie", tmdbId |-> "550", image |-> "https://poster",
     requestedBy_username |-> "alice", request_id |-> FirstReqId]

\* one notification is received, enriched with any of the given details and
\* delivered
RenderOne(details) ==
    \/ nwebhooks = 0 /\ webhook(Bearer(WEBHOOK_SECRET), "MEDIA_PENDING", MoviePayload)
    \/ \E j \in details : enrich("ok", j)
    \/ dispatch("ok")

\* the bot starts with one of the given configurations
InitWith(configs) ==
    /\ adminsFile = {1} /\ usersFile = {}
    /\ admins = load_ids(adminsFile)
    /\ users = load_ids(usersFile)
    /\ AtRest
    /\ \E c \in configs : Started(ConfigFile(c))

\* the characters of an overview
Chars == {"a", "b"}

\* the synopsis is the only field; any max_length, debug mode on or off
SynopsisConfigs ==
    {[DefaultConfig EXCEPT !.enabled_fields = <<"synopsis">>, !.field_order = <<"synopsis">>,
                           !.enabled = {"synopsis"}, !.max_length = n, !.debug_mode = d] :
        n \in 0..MaxMaxLength, d \in BOOLEAN}

\* details with any overview, or with none
SynopsisDetails ==
    {BareDetails} \cup
    {[id |-> "550", overview |-> o] : o \in ListsUpTo(Chars, MaxOverview)}

NextSynopsis == RenderOne(SynopsisDetails)

SpecSynopsis == InitWith(SynopsisConfigs) /\ [][NextSynopsis]_vars

\* the rating is the only field; any choice of sources, debug mode on or off
RatingConfigs ==
    {[DefaultConfig EXCEPT !.enabled_fields = <<"rating">>, !.field_order = <<"rating">>,
                           !.enabled = {"rating"}, !.show_tmdb = t, !.show_imdb = i,
                           !.debug_mode = d] :
        t \in BOOLEAN, i \in BOOLEAN, d \in BOOLEAN}

\* the scores the detail endpoint can answer with: 0, -1.5, 7 (an int), 7.0,
\* 7.26, 8.44, 9.96
Scores ==
    {Number(TRUE, 0), Number(FALSE, -150), Number(TRUE, 700), Number(FALSE, 700),
     Number(FALSE, 726), Number(FALSE, 844), Number(FALSE, 996)}

\* details with any TMDb score or none, and any IMDb score or none
RatingDetails ==
    {BareDetails}
    \cup {[id |-> "550", voteAverage |-> v] : v \in Scores}
    \cup {[id |-> "550", imdbRating |-> r] : r \in Scores}
    \cup {[id |-> "550", voteAverage |-> v, imdbRating |-> r] : v \in Scores, r \in Scores}

NextRating == RenderOne(RatingDetails)

SpecRating == InitWith(RatingConfigs) /\ [][NextRating]_vars

\* the fields that can be enabled next to the title and the requester
ExtraFields == <<"synopsis", "rating", "links", "cast", "crew">>

\* field configurations with the title and the requester, with or without
\* the picture, and with any of the other fields after them
ContextConfigs ==
    {LET listed == pic \o <<"title", "requester">>
                       \o SelectSeq(ExtraFields, LAMBDA f : f \in extra)
     IN  [DefaultConfig EXCEPT !.enabled_fields = listed, !.field_order = listed,
                               !.enabled = {listed[i] : i \in 1..Len(listed)}] :
        pic \in {<<>>, <<"picture">>}, extra \in SUBSET {"synopsis", "rating", "links", "cast", "crew"}}

\* a movie request with or without a poster
ContextPayloads == {MoviePayload, [MoviePayload EXCEPT !.image = None]}

\* one request message is delivered and its buttons are pressed by the admin
NextContext ==
    \/ \E d \in ContextPayloads :
          nwebhooks = 0 /\ webhook(Bearer(WEBHOOK_SECRET), "MEDIA_PENDING", d)
    \/ enrich("ok", MovieDetails)
    \/ dispatch("ok")
    \/ \E b \in {"approve", "deny"} : Click(1, 1, b)
    \/ button_handler
    \/ \E o \in ActionOutcomes : approve_or_deny_request(o)
    \/ button_resolve

SpecContext == InitWith(ContextConfigs) /\ [][NextContext]_vars

\* ------------------------------------------------------------- claims
\* the states of a dispatched request message
Pending(msg) == ~msg.deleted /\ msg.buttons
ResolvedSuccess(msg) == msg.deleted
ResolvedFailure(msg) == ~msg.deleted /\ ~msg.buttons /\ msg.body = "failed"
MsgState(msg) ==
    IF ResolvedSuccess(msg) THEN "success"
    ELSE IF ResolvedFailure(msg) THEN "failure"
    ELSE IF Pending(msg) THEN "pending" ELSE "other"

\* the chat loop takes a callback query in this step
PressHandled == Len(clicks') < Len(clicks)

\* C1: a press by an identity that is in neither admins nor users when the
\* press is handled is answered with the denial, starts no call to
\* approve_or_deny_request (no handler is left running, no POST is issued) and
\* leaves every message as it is (not deleted, not edited, buttons kept).
C1_UnauthorizedPressDenied ==
    [][ (PressHandled /\ Head(clicks).user \notin admins \cup users) =>
            /\ last' = Event("press", Head(clicks).user, <<>>, DenialAnswer)
            /\ bh' = IdleHandler
            /\ posts' = posts
            /\ authPresses' = authPresses
            /\ messages' = messages
            /\ announcements' = announcements
            /\ Pending(messages[Head(clicks).msg]) =>
                   messages'[Head(clicks).msg].buttons ]_vars

\* C1 witness: an unauthorized press has been denied while the message it was
\* made on still shows its buttons
C1_Witness ==
    /\ last.op = "press" /\ last.reply = DenialAnswer
    /\ last.user \notin admins \cup users
    /\ \E m \in DOMAIN messages : Pending(messages[m])
    /\ posts = <<>>

\* C9: every press that passed the authorization check issues exactly one
\* POST (none is retried, none is dropped): the POSTs issued, plus the one the
\* running handler is about to issue, are as many as the authorized presses;
\* this also counts a second press on a message that was already resolved.
C9_OnePostPerAuthorizedPress ==
    Len(posts) + (IF bh.pc = "call" THEN 1 ELSE 0) = authPresses

\* C9 witness: a double click; two presses on the same message both reached
\* the request service, the second after the first had resolved the message
C9_Witness ==
    /\ Len(posts) = 2
    /\ posts[1].msg = posts[2].msg
    /\ authPresses = 2
    /\ ~Pending(messages[posts[1].msg])
    /\ bh.pc = "idle"

\* the running handler finishes in this step
Resolving == bh.pc = "resolve" /\ bh'.pc = "idle"

\* C7 (as claimed): a message changes state only from Pending to
\* Resolved-Success (call succeeded) or Resolved-Failure (call failed); every
\* authorized press on a Pending message whose call returns moves it to one of
\* the two; a Resolved message never shows its buttons again.
C7_StateMachine ==
    [][ \A m \in DOMAIN messages :
          /\ MsgState(messages'[m]) # MsgState(messages[m]) =>
                /\ Resolving /\ bh.msg = m
                /\ MsgState(messages[m]) = "pending"
                /\ MsgState(messages'[m]) = (IF bh.success THEN "success" ELSE "failure")
          /\ (Resolving /\ bh.msg = m /\ Pending(messages[m])) =>
                MsgState(messages'[m]) = (IF bh.success THEN "success" ELSE "failure")
          /\ ~Pending(messages[m]) => ~Pending(messages'[m]) ]_vars

\* C8 (as claimed): when the approval call of an authorized press reports
\* failure, the message, photo or text, is edited to the failure notice and
\* carries no buttons afterwards.
C8_FailureNoticeBothVariants ==
    [][ (Resolving /\ ~bh.success /\ Pending(messages[bh.msg])) =>
            /\ messages'[bh.msg].body = "failed"
            /\ ~messages'[bh.msg].buttons ]_vars

\* an authorized MEDIA_PENDING webhook is being served or has been answered
ServingPending == wh.pc # "idle" /\ wh.auth /\ wh.ntype = "MEDIA_PENDING"
FetchFailures == {"transport_error", "bad_status", "malformed"}

SendFailed ==
    /\ ServingPending /\ wh.pc = "done"
    /\ ~no_details(wh.details)
    /\ wh.sendAttempts > 0 /\ wh.sent = "none"

C6_EnrichmentFailureDropsNotification ==
    /\ (ServingPending /\ wh.fetched \in FetchFailures) =>
            /\ wh.pc = "done"
            /\ wh.details = None
            /\ wh.fetchCalls = 1
            /\ wh.sendAttempts = 0 /\ wh.sent = "none"
            /\ wh.response = Response(200, "OK")
    /\ Len(messages) <= nwebhooks - (IF ServingPending /\ wh.sent = "none" THEN 1 ELSE 0)

\* C6 witness: the enrichment call met a transport error and the webhook was
\* answered 200 with no message in the chat
C6_Witness ==
    /\ ServingPending /\ wh.pc = "done"
    /\ wh.fetched = "transport_error"
    /\ wh.response = Response(200, "OK")
    /\ messages = <<>>

\* C10: a webhook that passed the bearer check (C11 covers the others) and
\* whose notification type is not MEDIA_PENDING is answered 200 at once, a test
\* notification with the fixed body; fetch_media_details is not called and
\* nothing is sent; any step that delivers a message or calls the detail
\* endpoint serves a MEDIA_PENDING webhook.
C10_OnlyPendingIsDispatched ==
    /\ [](  (wh.pc # "idle" /\ wh.auth /\ wh.ntype # "MEDIA_PENDING") =>
                /\ wh.pc = "done"
                /\ wh.response.status = 200
                /\ wh.ntype = "TEST_NOTIFICATION" =>
                       wh.response.body = "Test notification received!"
                /\ wh.fetched = "unset" /\ wh.fetchCalls = 0
                /\ wh.sendAttempts = 0 /\ wh.sent = "none" )
    /\ [][ (messages' # messages \/ (wh'.pc # "idle" /\ wh'.fetchCalls > 0)) =>
                wh'.ntype = "MEDIA_PENDING" ]_vars

\* C10 witness: after a delivered notification, a webhook of another type was
\* answered 200 and the chat still holds that one message
C10_Witness ==
    /\ wh.pc = "done" /\ wh.auth /\ wh.ntype = "MEDIA_APPROVED"
    /\ wh.response = Response(200, "OK")
    /\ Len(messages) = 1
    /\ nwebhooks = 2

\* the chat loop handles a /login of identity u in this step
LoginStep(u) ==
    /\ last'.op = "login" /\ last'.user = u
    /\ now' = now
    /\ <<chatVars, hookVars>>' = <<chatVars, hookVars>>

\* u has MaxAttempts counted attempts, the last one no more than Window ago
LockedOut(u) ==
    /\ u \in DOMAIN login_attempts
    /\ login_attempts[u].count >= MaxAttempts
    /\ now - login_attempts[u].time <= Window

\* u has MaxAttempts counted attempts and the window has passed since the last
WindowElapsed(u) ==
    /\ u \in DOMAIN login_attempts
    /\ login_attempts[u].count >= MaxAttempts
    /\ now - login_attempts[u].time > Window

C3_AdminsOnlyByLogin ==
    [][ \A u \in Ids : (u \in admins' /\ u \notin admins) =>
          /\ last'.op = "login" /\ last'.user = u
          /\ last'.args[1] = AdminPassword
          /\ user_attempts(u).count < MaxAttempts
          /\ u \notin DOMAIN login_attempts'
          /\ adminsFile' = admins' ]_vars

\* C3 witness: an identity with counted wrong attempts has just logged in: it
\* is an admin, its record is gone and the file holds the set
C3_Witness ==
    /\ last.op = "login" /\ last.reply = NowAdminReply
    /\ last.user \in admins
    /\ last.user \notin DOMAIN login_attempts
    /\ adminsFile = admins
    /\ \E v \in Ids \ {last.user} :
          v \in DOMAIN login_attempts /\ login_attempts[v].count = MaxAttempts

\* C11: a webhook whose Authorization header is not exactly
\* "Bearer <WEBHOOK_SECRET>" (no header, another secret, no scheme, another
\* case) is answered 401 at once, whatever its notification type: the detail
\* endpoint is not called, no send is attempted, and the step that receives it
\* delivers no message.
C11_BadBearerAnswered401 ==
    /\ []( (wh.pc # "idle" /\ wh.authorization # Bearer(WEBHOOK_SECRET)) =>
              /\ wh.pc = "done"
              /\ wh.response.status = 401
              /\ wh.fetched = "unset" /\ wh.fetchCalls = 0
              /\ wh.sendAttempts = 0 /\ wh.sent = "none" )
    /\ [][ (nwebhooks' # nwebhooks /\ wh'.authorization # Bearer(WEBHOOK_SECRET)) =>
              messages' = messages ]_vars

\* C11 witness: after a delivered notification, a complete MEDIA_PENDING
\* webhook carrying the secret without the Bearer scheme was answered 401 and
\* the chat still holds the one message
C11_Witness ==
    /\ wh.pc = "done" /\ wh.authorization = WEBHOOK_SECRET
    /\ wh.ntype = "MEDIA_PENDING"
    /\ wh.data \in CompletePayloads
    /\ wh.response.status = 401
    /\ Len(messages) = 1
    /\ nwebhooks = 2

\* C12 (as claimed): starting from disjoint sets, after any sequence of
\* login, logout, add-user (by reply or by id) and remove-user commands no
\* identity is a member of both admins and users.
C12_AdminsUsersDisjoint == admins \cap users = {}

\* C13: the persisted lists equal the in-memory sets in every state in which
\* a handler can start; a step that changes a set writes the whole new set in
\* the same step; and a command changes the membership of at most one identity,
\* so that no earlier update is undone by a later write.
C13_EveryMutationPersisted ==
    /\ [](adminsFile = admins /\ usersFile = users)
    /\ [][ /\ admins' # admins => adminsFile' = admins'
           /\ users' # users => usersFile' = users'
           /\ Cardinality((admins' \ admins) \cup (admins \ admins')
                          \cup (users' \ users) \cup (users \ users')) <= 1 ]_vars

\* C13 witness: an identity that was added to users has been removed again
\* and the removal is written, while both identities are admins
C13_Witness ==
    /\ last.op = "removeuser" /\ last.reply = UserRemovedReply
    /\ admins = Ids /\ adminsFile = Ids
    /\ users = {} /\ usersFile = {}

\* a step of the chat loop that handled a command: the operator's edits of the
\* configuration file are not commands
CommandStep == last' # last /\ config_file' = config_file

\* the commands reserved to admins
GatedOps == {"add", "adduser", "removeuser", "listusers", "listadmins",
             "reloadconfig", "configstatus"}
GateReplies == {OnlyAdminsReply, ReloadDeniedReply, StatusDeniedReply}

\* C14: add-user (by reply or by id), remove-user, list-users, list-admins,
\* reload-config and config-status, issued by an identity that is not in admins
\* (also one that is in users), are answered with the refusal and nothing else:
\* admins, users, both files and the loaded configuration stay as they are and
\* the answer carries no list.
C14_GatedCommandsChangeNothing ==
    [][ (CommandStep /\ last'.op \in GatedOps /\ last'.user \notin admins) =>
            /\ admins' = admins /\ users' = users
            /\ adminsFile' = adminsFile /\ usersFile' = usersFile
            /\ config' = config
            /\ last'.reply \in GateReplies
            /\ last'.args = <<>> ]_vars

\* C14 witness: a member of users asked for a reload while the file differs
\* from the loaded configuration and was refused; the configuration is still
\* the old one
C14_Witness ==
    /\ last.op = "reloadconfig" /\ last.reply = ReloadDeniedReply
    /\ last.user \in users \ admins
    /\ config # load_config(config_file)

\* the secret of a /login is not the credential
WrongSecret(pw) == pw = "" \/ ~check_password_hash(pw)

\* C15 (as claimed): a /login with a wrong or empty secret while the count of
\* the current window is below 5 adds one to the identity's count, sets its
\* time to now, and changes nothing else.
C15_WrongSecretCounted ==
    [][ \A u \in Ids :
          (LoginStep(u) /\ WrongSecret(last'.args[1])
             /\ user_attempts(u).count < MaxAttempts) =>
                /\ u \in DOMAIN login_attempts'
                /\ login_attempts'[u] = [count |-> user_attempts(u).count + 1, time |-> now]
                /\ \A v \in Ids \ {u} :
                      /\ (v \in DOMAIN login_attempts') = (v \in DOMAIN login_attempts)
                      /\ v \in DOMAIN login_attempts => login_attempts'[v] = login_attempts[v]
                /\ admins' = admins /\ users' = users
                /\ adminsFile' = adminsFile /\ usersFile' = usersFile ]_vars

\* C15 (amended): as claimed, for a /login sent in a private chat; in any other
\* chat the attempt is turned away before the secret is compared and is not
\* counted. The count is the one of the current window: it restarts from 0
\* once more than 5 minutes have passed since the record's time.
C15_WrongSecretInPrivateCounted ==
    [][ \A u \in Ids :
          (LoginStep(u) /\ WrongSecret(last'.args[1])
             /\ user_attempts(u).count < MaxAttempts) =>
                IF last'.args[2] = "private" THEN
                    /\ last'.reply = IncorrectReply
                    /\ u \in DOMAIN login_attempts'
                    /\ login_attempts'[u] =
                           [count |-> user_attempts(u).count + 1, time |-> now]
                    /\ \A v \in Ids \ {u} :
                          /\ (v \in DOMAIN login_attempts') = (v \in DOMAIN login_attempts)
                          /\ v \in DOMAIN login_attempts =>
                                 login_attempts'[v] = login_attempts[v]
                    /\ admins' = admins /\ users' = users
                    /\ adminsFile' = adminsFile /\ usersFile' = usersFile
                ELSE
                    /\ last'.reply = PrivateOnlyReply
                    /\ <<authVars>>' = <<authVars>> ]_vars

\* C15 witness: the third wrong attempt of an identity, minutes after its
\* first, has been counted while the other identity keeps an older record
C15_Witness ==
    /\ last.op = "login" /\ last.reply = IncorrectReply
    /\ last.user \in DOMAIN login_attempts
    /\ login_attempts[last.user] = [count |-> 3, time |-> now]
    /\ now >= 2
    /\ \E v \in Ids \ {last.user} :
          /\ v \in DOMAIN login_attempts
          /\ login_attempts[v].count = 1
          /\ login_attempts[v].time < now

\* the position of the first x in list
FirstIndex(x, list) == CHOOSE i \in 1..Len(list) : list[i] = x /\ \A j \in 1..(i-1) : list[j] # x

\* the result get_enabled_fields is claimed to have for configuration c:
\* exactly the fields that are in enabled_fields and individually enabled, none
\* twice, those of field_order first and in its order, the others after them
ClaimedEnabledFields(c, result) ==
    /\ {result[i] : i \in 1..Len(result)} =
           {f \in c.enabled : InList(f, c.enabled_fields)}
    /\ \A i, j \in 1..Len(result) : i < j =>
          /\ result[i] # result[j]
          /\ InList(result[j], c.field_order) =>
                /\ InList(result[i], c.field_order)
                /\ FirstIndex(result[i], c.field_order) < FirstIndex(result[j], c.field_order)
          /\ (~InList(result[i], c.field_order) /\ ~InList(result[j], c.field_order)) =>
                FirstIndex(result[i], c.enabled_fields) < FirstIndex(result[j], c.enabled_fields)

\* C16 (as claimed): for every field configuration the list get_enabled_fields
\* returns (here: the one the status command reports) holds only fields that
\* are in enabled_fields and individually enabled, the fields of field_order
\* first and in their declared order, the remaining ones appended once, and no
\* field twice.
C16_EnabledFieldsOrderedOnce ==
    (last.op = "configstatus" /\ last.reply = StatusReply) =>
        ClaimedEnabledFields(config, last.args[1])

\* a notification has been delivered: the webhook is answered and the chat
\* holds the message
Delivered == wh.pc = "done" /\ wh.sent # "none" /\ messages # <<>>

\* the parts of the message delivered last that render `field`
PartsOf(field) ==
    LET message == messages[Len(messages)].message
    IN  {message[i] : i \in {k \in 1..Len(message) : message[k].field = field}}

\* C17 (as claimed): for every configured max_length, an overview longer than
\* max_length is rendered as its first max_length - 3 characters followed by
\* the 3-character ellipsis, so that the synopsis text has exactly max_length
\* characters; an overview of at most max_length characters is rendered as it is.
C17_SynopsisTruncatedToMaxLength ==
    (Delivered /\ is_field_enabled("synopsis") /\ has(wh.json, "overview")
       /\ wh.json.overview # <<>>) =>
        LET overview == wh.json.overview
            max_length == config.max_length
        IN  /\ Cardinality(PartsOf("synopsis")) = 1
            /\ \A part \in PartsOf("synopsis") :
                  IF Len(overview) > max_length THEN
                      /\ Len(part.text) = max_length
                      /\ \A i \in 1..(max_length - 3) : part.text[i] = overview[i]
                      /\ \A i \in 1..3 :
                            /\ max_length - 3 + i \in 1..Len(part.text)
                            /\ part.text[max_length - 3 + i] = "."
                  ELSE part.text = overview

\* the ratings of the message delivered last that carry `tag`
RatingsOf(tag) ==
    {r \in UNION {{part.ratings[i] : i \in 1..Len(part.ratings)} : part \in PartsOf("rating")} :
        r.tag = tag}

\* the rating sources: the tag, the setting that enables it, the key it reads
Sources ==
    {[tag |-> "TMDb", shown |-> config.show_tmdb, key |-> "voteAverage"],
     [tag |-> "IMDb", shown |-> config.show_imdb, key |-> "imdbRating"]}

\* C18 (as claimed): in format_rating_field every enabled source, TMDb and
\* IMDb, whose score is positive is rendered once, with exactly one fraction
\* digit, followed by /10 and its tag; a source whose score is 0, negative or
\* absent is not rendered.
C18_RatingsOneFractionDigit ==
    (Delivered /\ is_field_enabled("rating")) =>
        \A source \in Sources :
            IF source.shown /\ positive(wh.json, source.key) THEN
                /\ Cardinality(RatingsOf(source.tag)) = 1
                /\ \A r \in RatingsOf(source.tag) :
                      Len(r.number.frac) = 1 /\ r.outOf = "/10"
            ELSE RatingsOf(source.tag) = {}

\* the enrichment of an authorized MEDIA_PENDING webhook returned details
Enriched == ServingPending /\ wh.details # "unset" /\ ~no_details(wh.details)

\* C19: when enrichment returned details for a MEDIA_PENDING event, the next
\* step of the dispatcher is the one send attempt: before it no attempt has
\* been made, after it exactly one, and the webhook is answered only then; a
\* delivered message is never empty: when no formatter yields content it is the
\* fixed fallback (type, title, requester), otherwise the parts of fields.
C19_OneSendPerEnrichedEvent ==
    /\ []( Enriched =>
              /\ wh.pc \in {"send", "done"}
              /\ wh.sendAttempts = (IF wh.pc = "done" THEN 1 ELSE 0)
              /\ Len(messages) <= nwebhooks )
    /\ [][ (Enriched /\ wh.pc = "send" /\ wh' # wh) =>
              /\ wh'.pc = "done" /\ wh'.sendAttempts = 1
              /\ Len(messages') <= Len(messages) + 1
              /\ wh'.sent # "none" =>
                    /\ Len(messages') = Len(messages) + 1
                    /\ LET message == messages'[Len(messages')].message IN
                          \/ /\ Len(message) = 1
                             /\ message[1].field = "fallback"
                             /\ Len(message[1].text) = 3
                          \/ /\ Len(message) >= 1
                             /\ \A i \in 1..Len(message) :
                                   message[i].field \in Fields \ {"picture"} ]_vars

\* C19 witness: with the picture as the only field no formatter yields
\* anything, and the fallback message has been delivered as a photo
C19_Witness ==
    /\ Delivered /\ Enriched
    /\ config = PictureOnlyConfig
    /\ wh.sendAttempts = 1
    /\ messages[Len(messages)].message[1].field = "fallback"
    /\ messages[Len(messages)].variant = "photo"

\* C20: the step that delivers a message sends a photo with caption exactly
\* when the payload has a poster URL and the picture field is enabled, and text
\* in every other case, with the fallback emoji in front when the picture is
\* enabled and there is no poster URL; in both variants the message carries one
\* approve button and one deny button keyed by the event's request id.
C20_PhotoIffPosterAndPicture ==
    [][ Len(messages') = Len(messages) + 1 =>
          LET sent == messages'[Len(messages')]
              poster == wh.data.image # None
              picture == "picture" \in config.enabled
          IN  /\ sent.variant = (IF poster /\ picture THEN "photo" ELSE "text")
              /\ wh'.sent = sent.variant
              /\ sent.prefix = (IF picture /\ ~poster THEN "fallback_emoji" ELSE "")
              /\ sent.buttons
              /\ sent.keyboard = <<<<"approve", wh.data.request_id>>,
                                   <<"deny", wh.data.request_id>>>> ]_vars

\* C20 witness: with the picture enabled a payload without a poster URL has
\* been delivered as text with the fallback emoji in front
C20_Witness ==
    /\ Delivered
    /\ "picture" \in config.enabled
    /\ wh.data.image = None
    /\ messages[Len(messages)].variant = "text"
    /\ messages[Len(messages)].prefix = "fallback_emoji"

\* the webhook body of the event being served leaves out the media kind, or
\* the external id
LacksKindOrId ==
    ServingPending /\ (wh.data.media_type = None \/ wh.data.tmdbId = None)

\* C21: the enrichment client makes no network call and yields nothing when
\* the kind or the id is missing or empty; a MEDIA_PENDING event whose body
\* lacks the media kind, or lacks the external id, causes no request to the
\* request service and no chat message
C21_MissingKindOrIdNoRequest ==
    (/\ ServingPending /\ wh.pc \in {"send", "done"}
     /\ \/ LacksKindOrId
        \/ wh.data.media_type = ""
        \/ wh.data.tmdbId = "")
    => /\ wh.fetchCalls = 0
       /\ wh.fetched = "not_called"
       /\ wh.details = None
       /\ wh.sendAttempts = 0
       /\ wh.sent = "none"

\* a step in which an admin's reload command is answered
AdminReloadStep ==
    /\ last' # last
    /\ last'.op = "reloadconfig"
    /\ last'.user \in admins

\* a step in which load_config has visibly run: the in-memory configuration
\* or last_modified changed
LoadStep == config' # config \/ last_modified' # last_modified \/ AdminReloadStep

\* C22: load_config with a missing file makes the built-in default the
\* in-memory configuration and writes it to the file; with a file that does
\* not parse it makes the built-in default the in-memory configuration and
\* leaves the file as it is; no error reaches the caller: the bot starts, the
\* reload thread keeps running, the reload command answers that it reloaded
C22_LoadConfigOutcomes ==
    /\ config_file.status # "missing"
    /\ config_file.status = "malformed" => config = DefaultConfig
    /\ [][LoadStep =>
            /\ config_file.status = "missing" =>
                    /\ config' = DefaultConfig
                    /\ config_file'.status = "ok"
                    /\ config_file'.content = DefaultConfig
            /\ config_file.status = "malformed" =>
                    /\ config' = DefaultConfig
                    /\ config_file' = config_file
            /\ config_file.status = "ok" =>
                    /\ config' = config_file.content
                    /\ config_file' = config_file
            /\ reload_thread' = reload_thread
            /\ AdminReloadStep => last'.reply = ReloadedReply]_vars

\* the bot runs without a reload thread, the file was removed, and an
\* admin's reload command has written the defaults to it
C22_Witness ==
    /\ reload_thread = "none"
    /\ last = Event("reloadconfig", 1, <<>>, ReloadedReply)
    /\ config = DefaultConfig
    /\ config_file.status = "ok" /\ config_file.content = DefaultConfig
    /\ config_file.mtime = 3
    /\ last_modified = 1

\* the files that parse, with every modification time a run can give them
ParsedFiles ==
    {[ConfigFile(c) EXCEPT !.mtime = m] :
        c \in {DefaultConfig, NoPictureConfig, ManualReloadConfig}, m \in 1..(MaxEdits + 2)}

\* C23: the reload thread never stops, whatever a check or a reload runs
\* into; the configuration is loaded from a file that is there only when the
\* file's modification time is later than that of the last successful load;
\* and while the thread runs, a file that parses is eventually the in-memory
\* configuration, unless it is changed again first
C23_ChangedFileEventuallyLoaded ==
    /\ [][/\ reload_thread' = reload_thread
          /\ (config' # config \/ last_modified' # last_modified)
                /\ config_file.status # "missing"
             => config_file.mtime > last_modified]_vars
    /\ \A f \in ParsedFiles :
          (config_file = f /\ reload_thread = "running")
             ~> (config = f.content \/ config_file # f)

\* no reload command was sent; the file was written twice since the bot
\* started and the reload thread has loaded it
C23_Witness ==
    /\ last.op = "none"
    /\ reload_thread = "running"
    /\ config_file.status = "ok" /\ config_file.mtime = 3
    /\ config_file.content = NoPictureConfig
    /\ config = NoPictureConfig
    /\ last_modified = 3

\* the title and the requester name that a message part shows
shown(message, field) ==
    LET part == message[CHOOSE i \in 1..Len(message) : message[i].field = field]
    IN  IF field = "title" THEN <<part.text[2]>> ELSE part.text

\* the message shows the title and the requester as fields of their own
ShowsContext(msg) ==
    /\ \E i \in 1..Len(msg.message) : msg.message[i].field = "title"
    /\ \E i \in 1..Len(msg.message) : msg.message[i].field = "requester"

\* C24: whenever the title and the requester are enabled, whatever other
\* fields are, and for the photo and the text variant alike, the title and
\* the original requester that button_handler reads back from the message
\* are the title and the requester name rendered into it
C24_ContextRoundTrip ==
    (bh.pc # "idle" /\ ShowsContext(messages[bh.msg]))
    => /\ bh.title = shown(messages[bh.msg].message, "title")
       /\ bh.original_requester = shown(messages[bh.msg].message, "requester")

\* the POST issued by the step, when the step issues one
IssuedPost == posts'[Len(posts')]

C26_LockoutNotExtended ==
    /\ [](\A u \in DOMAIN login_attempts : login_attempts[u].count <= MaxAttempts)
    /\ [][ \A u \in Ids :
            /\ LockedOut(u) =>
                  /\ u \in DOMAIN login_attempts'
                  /\ login_attempts'[u] = login_attempts[u]
                  /\ LoginStep(u) => last'.reply = RateLimitReply
            /\ (LoginStep(u) /\ WindowElapsed(u)) => last'.reply # RateLimitReply
            /\ (/\ LoginStep(u) /\ last'.reply = IncorrectReply
                /\ u \in DOMAIN login_attempts
                /\ now - login_attempts[u].time <= Window) =>
                  login_attempts'[u] = [count |-> login_attempts[u].count + 1,
                                        time |-> now] ]_vars

\* a wrong secret sent exactly Window after the fifth counted attempt, which
\* was made after the clock had advanced, was turned away and the record
\* still holds the time of the fifth attempt
C26_Witness ==
    /\ last.op = "login" /\ last.reply = RateLimitReply
    /\ last.args = <<"wrong", "private">>
    /\ last.user \in DOMAIN login_attempts
    /\ login_attempts[last.user] = [count |-> MaxAttempts, time |-> now - Window]
    /\ now = MaxTime

====
